---- MODULE Spec2Model ----
(***************************************************************************)
(* A model of the 6502 CPU core of crates/hello/src/nes/cpu.rs: the        *)
(* registers, the status byte, the program counter and the memory array,   *)
(* the host-callable operations (mem_read, mem_write, load, reset, run,    *)
(* load_and_run), the private 16-bit helpers, the addressing-mode resolver *)
(* and the instruction handlers.  One iteration of run's loop is one step. *)
(*                                                                         *)
(* A Rust panic (an index out of bounds, expect() on a missing table       *)
(* entry, todo!(), panic!()) ends the call: the model records its kind in  *)
(* `panic` and moves to phase "panicked", from which nothing is enabled.   *)
(***************************************************************************)
EXTENDS Integers, Sequences, FiniteSets, TLC

(***************************************************************************)
(* Program constants.                                                      *)
(***************************************************************************)
\* memory: [u8; 0xFFFF]  -- the array's length, cpu.rs:34 and cpu.rs:99
MEMORY_LEN == 65535
\* const DEFAULT_PROGRAM_COUNTER: u16 = 0x8000, cpu.rs:45
DEFAULT_PROGRAM_COUNTER == 32768
\* the reset vector address 0xFFFC used by load and reset, cpu.rs:130, 138
RESET_VECTOR == 65532

Byte == 0..255
U16 == 0..65535

(***************************************************************************)
(* Bounds of the model.                                                    *)
(***************************************************************************)
\* host calls made on one CPU in one behaviour of Spec
MaxCalls == 3
\* instructions drawn for a generated program of SpecHarness
MaxInstrs == 2

(***************************************************************************)
(* u8 / u16 arithmetic.                                                    *)
(***************************************************************************)
\* u8::wrapping_add
wrapping_add_u8(a, b) == (a + b) % 256
\* u16::wrapping_add
wrapping_add_u16(a, b) == (a + b) % 65536
\* bit n of a byte, as 0 or 1
Bit(v, n) == (v \div (2 ^ n)) % 2
\* v | (1 << n)
SetBit(v, n) == IF Bit(v, n) = 1 THEN v ELSE v + 2 ^ n
\* v & !(1 << n)
ClearBit(v, n) == IF Bit(v, n) = 1 THEN v - 2 ^ n ELSE v

(***************************************************************************)
(* Memory.  The array [u8; 0xFFFF] starts zero-filled (CPU::new); it is    *)
(* kept as a function on the set of addresses that hold a non-zero byte,   *)
(* every other index below MEMORY_LEN reading 0.  An index at or beyond    *)
(* MEMORY_LEN is Rust's index-out-of-bounds panic.                         *)
(***************************************************************************)
IndexOutOfBounds == "index out of bounds"
NoPanic == "none"

\* self.memory[addr as usize], for an index inside the array
MemGet(m, addr) == IF addr \in DOMAIN m THEN m[addr] ELSE 0

\* self.memory[addr as usize] = data, for an index inside the array
MemSet(m, addr, data) ==
  IF data = 0
    THEN [a \in (DOMAIN m) \ {addr} |-> m[a]]
    ELSE [a \in (DOMAIN m) \cup {addr} |-> IF a = addr THEN data ELSE m[a]]

\* whether indexing the array with addr succeeds
InBounds(addr) == addr < MEMORY_LEN

\* CPU::mem_read: the byte, or the panic of the indexing
mem_read(c, addr) ==
  IF InBounds(addr)
    THEN [panic |-> NoPanic, value |-> MemGet(c.memory, addr)]
    ELSE [panic |-> IndexOutOfBounds, value |-> 0]

\* CPU::mem_write: the CPU after the store, or after the panic of the indexing
mem_write(c, addr, data) ==
  IF c.panic # NoPanic THEN c
  ELSE IF InBounds(addr)
    THEN [c EXCEPT !.memory = MemSet(c.memory, addr, data)]
    ELSE [c EXCEPT !.panic = IndexOutOfBounds]

\* CPU::mem_read_u16: lo = mem_read(pos), hi = mem_read(pos + 1), (hi << 8) | lo.
\* pos + 1 cannot overflow u16: pos = 0xFFFF panics in mem_read(pos) first.
mem_read_u16(c, pos) ==
  LET lo == mem_read(c, pos)
      hi == mem_read(c, pos + 1)
  IN IF lo.panic # NoPanic THEN [panic |-> lo.panic, value |-> 0]
     ELSE IF hi.panic # NoPanic THEN [panic |-> hi.panic, value |-> 0]
     ELSE [panic |-> NoPanic, value |-> hi.value * 256 + lo.value]

\* CPU::mem_write_u16: hi = data >> 8, lo = data & 0xff, write lo at pos then
\* hi at pos + 1.  The first store is kept when the second panics.
mem_write_u16(c, pos, data) ==
  LET hi == data \div 256
      lo == data % 256
  IN mem_write(mem_write(c, pos, lo), pos + 1, hi)

(***************************************************************************)
(* Status flags.                                                           *)
(***************************************************************************)
\* the status byte overwritten with the two flags instead of masked
update_flags_overwriting(st, result) ==
  (IF result = 0 THEN 2 ELSE 0) + (IF Bit(result, 7) # 0 THEN 128 ELSE 0)

\* the flags set but never cleared
update_flags_never_clearing(st, result) ==
  LET z == IF result = 0 THEN SetBit(st, 1) ELSE st
  IN IF Bit(result, 7) # 0 THEN SetBit(z, 7) ELSE z

\* CPU::update_zero_and_negative_flags, on the status byte
update_zero_and_negative_flags(st, result) ==
  LET z == IF result = 0 THEN SetBit(st, 1) ELSE ClearBit(st, 1)
  IN IF Bit(result, 7) # 0 THEN SetBit(z, 7) ELSE ClearBit(z, 7)

(***************************************************************************)
(* The opcode table, crate::nes::opcodes::OPCODES_MAP.  Its source file is *)
(* not among the sources; it is modelled from the specification: a         *)
(* read-only map from the opcode bytes of the documented 6502 instruction  *)
(* set to an addressing mode and an instruction length in bytes.  Implied, *)
(* accumulator, relative and jump instructions carry NoneAddressing.       *)
(***************************************************************************)
ImmediateOpcodes ==
  {\h09, \h29, \h49, \h69, \hA0, \hA2, \hA9, \hC0, \hC9, \hE0, \hE9}
ZeroPageOpcodes ==
  {\h05, \h06, \h24, \h25, \h26, \h45, \h46, \h65, \h66, \h84, \h85, \h86,
   \hA4, \hA5, \hA6, \hC4, \hC5, \hC6, \hE4, \hE5, \hE6}
ZeroPage_XOpcodes ==
  {\h15, \h16, \h35, \h36, \h55, \h56, \h75, \h76, \h94, \h95, \hB4, \hB5,
   \hD5, \hD6, \hF5, \hF6}
ZeroPage_YOpcodes ==
  {\h96, \hB6}
AbsoluteOpcodes ==
  {\h0D, \h0E, \h2C, \h2D, \h2E, \h4D, \h4E, \h6D, \h6E, \h8C, \h8D, \h8E,
   \hAC, \hAD, \hAE, \hCC, \hCD, \hCE, \hEC, \hED, \hEE}
Absolute_XOpcodes ==
  {\h1D, \h1E, \h3D, \h3E, \h5D, \h5E, \h7D, \h7E, \h9D, \hBC, \hBD, \hDD,
   \hDE, \hFD, \hFE}
Absolute_YOpcodes ==
  {\h19, \h39, \h59, \h79, \h99, \hB9, \hBE, \hD9, \hF9}
Indirect_XOpcodes ==
  {\h01, \h21, \h41, \h61, \h81, \hA1, \hC1, \hE1}
Indirect_YOpcodes ==
  {\h11, \h31, \h51, \h71, \h91, \hB1, \hD1, \hF1}
\* implied and accumulator instructions: one byte
None1Opcodes ==
  {\h00, \h08, \h0A, \h18, \h28, \h2A, \h38, \h40, \h48, \h4A, \h58, \h60,
   \h68, \h6A, \h78, \h88, \h8A, \h98, \h9A, \hA8, \hAA, \hB8, \hBA, \hC8,
   \hCA, \hD8, \hE8, \hEA, \hF8}
\* relative branches: two bytes
None2Opcodes ==
  {\h10, \h30, \h50, \h70, \h90, \hB0, \hD0, \hF0}
\* JSR, JMP absolute, JMP indirect: three bytes
None3Opcodes ==
  {\h20, \h4C, \h6C}

\* the opcode bytes that have an entry in the table
TableOpcodes ==
  ImmediateOpcodes \cup ZeroPageOpcodes \cup ZeroPage_XOpcodes
    \cup ZeroPage_YOpcodes \cup AbsoluteOpcodes \cup Absolute_XOpcodes
    \cup Absolute_YOpcodes \cup Indirect_XOpcodes \cup Indirect_YOpcodes
    \cup None1Opcodes \cup None2Opcodes \cup None3Opcodes

\* OpCode.mode of the entry of code
OpcodeMode(code) ==
  CASE code \in ImmediateOpcodes -> "Immediate"
    [] code \in ZeroPageOpcodes -> "ZeroPage"
    [] code \in ZeroPage_XOpcodes -> "ZeroPage_X"
    [] code \in ZeroPage_YOpcodes -> "ZeroPage_Y"
    [] code \in AbsoluteOpcodes -> "Absolute"
    [] code \in Absolute_XOpcodes -> "Absolute_X"
    [] code \in Absolute_YOpcodes -> "Absolute_Y"
    [] code \in Indirect_XOpcodes -> "Indirect_X"
    [] code \in Indirect_YOpcodes -> "Indirect_Y"
    [] OTHER -> "NoneAddressing"

\* OpCode.len of the entry of code
OpcodeLen(code) ==
  CASE code \in None1Opcodes -> 1
    [] code \in ImmediateOpcodes \cup ZeroPageOpcodes \cup ZeroPage_XOpcodes
         \cup ZeroPage_YOpcodes \cup Indirect_XOpcodes \cup Indirect_YOpcodes
         \cup None2Opcodes -> 2
    [] OTHER -> 3

(***************************************************************************)
(* The opcode bytes run dispatches on (the arms of its match).             *)
(***************************************************************************)
LdaOpcodes == {\hA9, \hA5, \hB5, \hBD, \hB9, \hA1, \hB1, \hAD}
StaOpcodes == {\h85, \h95, \h8D, \h9D, \h99, \h81, \h91}
TaxOpcode == \hAA
InxOpcode == \hE8
BrkOpcode == \h00
HandledOpcodes == LdaOpcodes \cup StaOpcodes \cup {TaxOpcode, InxOpcode, BrkOpcode}

OpcodeNotRecognized == "OpCode is not recognized"
NotYetImplemented == "not yet implemented"
ModeNotSupported == "mode is not supported"
RangeOutOfBounds == "range end index out of range"

(***************************************************************************)
(* The CPU as a record, threaded through the handlers.                     *)
(***************************************************************************)
\* CPU::new
new ==
  [register_a |-> 0, register_x |-> 0, register_y |-> 0, status |-> 0,
   program_counter |-> 0, memory |-> << >>, panic |-> NoPanic]

\* the panic of a sub-call taken over by the caller
Panicked(c, kind) == [c EXCEPT !.panic = kind]

\* get_operand_address with the zero-page sums widened to u16 before they are
\* added, so that they carry into page one instead of wrapping
get_operand_address_widened(c, mode) ==
  LET pc == c.program_counter
      b == mem_read(c, pc)
      w == mem_read_u16(c, pc)
      Ok(a) == [panic |-> NoPanic, addr |-> a]
      Fail(k) == [panic |-> k, addr |-> 0]
  IN CASE mode = "Immediate" -> Ok(pc)
       [] mode = "ZeroPage" ->
            IF b.panic # NoPanic THEN Fail(b.panic) ELSE Ok(b.value)
       [] mode = "Absolute" ->
            IF w.panic # NoPanic THEN Fail(w.panic) ELSE Ok(w.value)
       [] mode = "ZeroPage_X" ->
            IF b.panic # NoPanic THEN Fail(b.panic)
            ELSE Ok(wrapping_add_u16(b.value, c.register_x))
       [] mode = "ZeroPage_Y" ->
            IF b.panic # NoPanic THEN Fail(b.panic)
            ELSE Ok(wrapping_add_u16(b.value, c.register_y))
       [] mode = "Absolute_X" ->
            IF w.panic # NoPanic THEN Fail(w.panic)
            ELSE Ok(wrapping_add_u16(w.value, c.register_x))
       [] mode = "Absolute_Y" ->
            IF w.panic # NoPanic THEN Fail(w.panic)
            ELSE Ok(wrapping_add_u16(w.value, c.register_y))
       [] mode = "Indirect_X" ->
            IF b.panic # NoPanic THEN Fail(b.panic)
            ELSE LET ptr == wrapping_add_u16(b.value, c.register_x)
                     lo == mem_read(c, ptr)
                     hi == mem_read(c, wrapping_add_u16(ptr, 1))
                 IN Ok(hi.value * 256 + lo.value)
       [] mode = "Indirect_Y" ->
            IF b.panic # NoPanic THEN Fail(b.panic)
            ELSE LET lo == mem_read(c, b.value)
                     hi == mem_read(c, wrapping_add_u16(b.value, 1))
                     deref_base == hi.value * 256 + lo.value
                 IN Ok(wrapping_add_u16(deref_base, c.register_y))
       [] OTHER -> Fail(ModeNotSupported)

\* CPU::get_operand_address: the effective address, or the panic of a read
get_operand_address(c, mode) ==
  LET pc == c.program_counter
      b == mem_read(c, pc)
      w == mem_read_u16(c, pc)
      Ok(a) == [panic |-> NoPanic, addr |-> a]
      Fail(k) == [panic |-> k, addr |-> 0]
  IN CASE mode = "Immediate" -> Ok(pc)
       [] mode = "ZeroPage" ->
            IF b.panic # NoPanic THEN Fail(b.panic) ELSE Ok(b.value)
       [] mode = "Absolute" ->
            IF w.panic # NoPanic THEN Fail(w.panic) ELSE Ok(w.value)
       [] mode = "ZeroPage_X" ->
            IF b.panic # NoPanic THEN Fail(b.panic)
            ELSE Ok(wrapping_add_u8(b.value, c.register_x))
       [] mode = "ZeroPage_Y" ->
            IF b.panic # NoPanic THEN Fail(b.panic)
            ELSE Ok(wrapping_add_u8(b.value, c.register_y))
       [] mode = "Absolute_X" ->
            IF w.panic # NoPanic THEN Fail(w.panic)
            ELSE Ok(wrapping_add_u16(w.value, c.register_x))
       [] mode = "Absolute_Y" ->
            IF w.panic # NoPanic THEN Fail(w.panic)
            ELSE Ok(wrapping_add_u16(w.value, c.register_y))
       [] mode = "Indirect_X" ->
            IF b.panic # NoPanic THEN Fail(b.panic)
            ELSE LET ptr == wrapping_add_u8(b.value, c.register_x)
                     lo == mem_read(c, ptr)
                     hi == mem_read(c, wrapping_add_u8(ptr, 1))
                 IN Ok(hi.value * 256 + lo.value)
       [] mode = "Indirect_Y" ->
            IF b.panic # NoPanic THEN Fail(b.panic)
            ELSE LET lo == mem_read(c, b.value)
                     hi == mem_read(c, wrapping_add_u8(b.value, 1))
                     deref_base == hi.value * 256 + lo.value
                 IN Ok(wrapping_add_u16(deref_base, c.register_y))
       [] OTHER -> Fail(ModeNotSupported)

\* lda without its call of update_zero_and_negative_flags
lda_without_flags(c, mode) ==
  LET a == get_operand_address(c, mode)
      v == mem_read(c, a.addr)
  IN IF a.panic # NoPanic THEN Panicked(c, a.panic)
     ELSE IF v.panic # NoPanic THEN Panicked(c, v.panic)
     ELSE [c EXCEPT !.register_a = v.value]

\* CPU::lda
lda(c, mode) ==
  LET a == get_operand_address(c, mode)
      v == mem_read(c, a.addr)
  IN IF a.panic # NoPanic THEN Panicked(c, a.panic)
     ELSE IF v.panic # NoPanic THEN Panicked(c, v.panic)
     ELSE [c EXCEPT !.register_a = v.value,
                    !.status = update_zero_and_negative_flags(c.status, v.value)]

\* sta followed by update_zero_and_negative_flags(register_a), as lda has it
sta_updating_flags(c, mode) ==
  LET a == get_operand_address(c, mode)
      w == mem_write(c, a.addr, c.register_a)
  IN IF a.panic # NoPanic THEN Panicked(c, a.panic)
     ELSE IF w.panic # NoPanic THEN w
     ELSE [w EXCEPT
             !.status = update_zero_and_negative_flags(c.status, c.register_a)]

\* CPU::sta
sta(c, mode) ==
  LET a == get_operand_address(c, mode)
  IN IF a.panic # NoPanic THEN Panicked(c, a.panic)
     ELSE mem_write(c, a.addr, c.register_a)

\* tax computing the flags before the transfer, from the old register_x
tax_flags_of_old_x(c) ==
  [c EXCEPT !.register_x = c.register_a,
            !.status = update_zero_and_negative_flags(c.status, c.register_x)]

\* CPU::tax
tax(c) ==
  [c EXCEPT !.register_x = c.register_a,
            !.status = update_zero_and_negative_flags(c.status, c.register_a)]

\* inx with a saturating instead of a wrapping addition
inx_saturating(c) ==
  LET x == IF c.register_x = 255 THEN 255 ELSE c.register_x + 1
  IN [c EXCEPT !.register_x = x,
               !.status = update_zero_and_negative_flags(c.status, x)]

\* CPU::inx
inx(c) ==
  LET x == wrapping_add_u8(c.register_x, 1)
  IN [c EXCEPT !.register_x = x,
               !.status = update_zero_and_negative_flags(c.status, x)]

\* the match with an empty default arm in place of todo!()
Dispatch_ignoring_unhandled(c, code) ==
  CASE code \in LdaOpcodes -> lda(c, OpcodeMode(code))
    [] code \in StaOpcodes -> sta(c, OpcodeMode(code))
    [] code = TaxOpcode -> tax(c)
    [] code = InxOpcode -> inx(c)
    [] OTHER -> c

\* the match of run's loop body on the fetched opcode byte, BRK apart
Dispatch(c, code) ==
  CASE code \in LdaOpcodes -> lda(c, OpcodeMode(code))
    [] code \in StaOpcodes -> sta(c, OpcodeMode(code))
    [] code = TaxOpcode -> tax(c)
    [] code = InxOpcode -> inx(c)
    [] OTHER -> Panicked(c, NotYetImplemented)

\* the operand skip taking the whole instruction length, opcode byte included
AdvanceByFullLength(c, program_counter_state, code) ==
  IF program_counter_state = c.program_counter
    THEN [c EXCEPT !.program_counter = c.program_counter + OpcodeLen(code)]
    ELSE c

\* the operand skip left out
AdvanceNever(c, program_counter_state, code) == c

\* the end of run's loop body: the operand bytes are skipped when the handler
\* left program_counter where the fetch put it.  The sum stays a u16: a
\* handler that read its operand bytes read them below MEMORY_LEN.
AdvanceOverOperands(c, program_counter_state, code) ==
  IF program_counter_state = c.program_counter
    THEN [c EXCEPT !.program_counter = c.program_counter + (OpcodeLen(code) - 1)]
    ELSE c

\* the loop body with a BRK that sets the break flag (status bit 4) as it
\* returns
run_iteration_break_flag(c) ==
  LET f == mem_read(c, c.program_counter)
      code == f.value
      c1 == [c EXCEPT !.program_counter = c.program_counter + 1]
      c2 == Dispatch(c1, code)
  IN IF f.panic # NoPanic
       THEN [cpu |-> Panicked(c, f.panic), returned |-> FALSE, code |-> 0,
             args |-> << >>]
     ELSE IF code \notin TableOpcodes
       THEN [cpu |-> Panicked(c1, OpcodeNotRecognized), returned |-> FALSE,
             code |-> code, args |-> <<code>>]
     ELSE IF code = BrkOpcode
       THEN [cpu |-> [c1 EXCEPT !.status = SetBit(c1.status, 4)], returned |-> TRUE, code |-> code,
             args |-> << >>]
     ELSE IF c2.panic # NoPanic
       THEN [cpu |-> c2, returned |-> FALSE, code |-> code,
             args |-> IF c2.panic = ModeNotSupported
                        THEN <<OpcodeMode(code)>> ELSE << >>]
     ELSE [cpu |-> AdvanceOverOperands(c2, c1.program_counter, code),
           returned |-> FALSE, code |-> code, args |-> << >>]

\* the loop body without the increment of program_counter after the fetch
run_iteration_without_increment(c) ==
  LET f == mem_read(c, c.program_counter)
      code == f.value
      c1 == c
      c2 == Dispatch(c1, code)
  IN IF f.panic # NoPanic
       THEN [cpu |-> Panicked(c, f.panic), returned |-> FALSE, code |-> 0,
             args |-> << >>]
     ELSE IF code \notin TableOpcodes
       THEN [cpu |-> Panicked(c1, OpcodeNotRecognized), returned |-> FALSE,
             code |-> code, args |-> <<code>>]
     ELSE IF code = BrkOpcode
       THEN [cpu |-> c1, returned |-> TRUE, code |-> code,
             args |-> << >>]
     ELSE IF c2.panic # NoPanic
       THEN [cpu |-> c2, returned |-> FALSE, code |-> code,
             args |-> IF c2.panic = ModeNotSupported
                        THEN <<OpcodeMode(code)>> ELSE << >>]
     ELSE [cpu |-> AdvanceOverOperands(c2, c1.program_counter, code),
           returned |-> FALSE, code |-> code, args |-> << >>]

\* One iteration of run's loop: the CPU after it, whether run returned, the
\* opcode byte fetched, and the values the message of a panic raised by run's
\* own code is formatted with: format!("OpCode {:x} is not recognized", code)
\* and panic!("mode {:?} is not supported", mode); the messages of the other
\* panics are written by the library.  program_counter + 1 stays a u16: the
\* fetch at 0xFFFF panics before it.
run_iteration(c) ==
  LET f == mem_read(c, c.program_counter)
      code == f.value
      c1 == [c EXCEPT !.program_counter = c.program_counter + 1]
      c2 == Dispatch(c1, code)
  IN IF f.panic # NoPanic
       THEN [cpu |-> Panicked(c, f.panic), returned |-> FALSE, code |-> 0,
             args |-> << >>]
     ELSE IF code \notin TableOpcodes
       THEN [cpu |-> Panicked(c1, OpcodeNotRecognized), returned |-> FALSE,
             code |-> code, args |-> <<code>>]
     ELSE IF code = BrkOpcode
       THEN [cpu |-> c1, returned |-> TRUE, code |-> code, args |-> << >>]
     ELSE IF c2.panic # NoPanic
       THEN [cpu |-> c2, returned |-> FALSE, code |-> code,
             args |-> IF c2.panic = ModeNotSupported
                        THEN <<OpcodeMode(code)>> ELSE << >>]
     ELSE [cpu |-> AdvanceOverOperands(c2, c1.program_counter, code),
           returned |-> FALSE, code |-> code, args |-> << >>]

\* load into a memory that is zero-filled first
load_into_cleared_memory(c, program) ==
  IF DEFAULT_PROGRAM_COUNTER + Len(program) > MEMORY_LEN
    THEN Panicked(c, RangeOutOfBounds)
    ELSE LET copied ==
               [a \in {DEFAULT_PROGRAM_COUNTER + i - 1 :
                         i \in {j \in 1..Len(program) : program[j] # 0}}
                  |-> program[a - DEFAULT_PROGRAM_COUNTER + 1]]
         IN mem_write_u16([c EXCEPT !.memory = copied], RESET_VECTOR,
                          DEFAULT_PROGRAM_COUNTER)

\* CPU::load: the program copied to DEFAULT_PROGRAM_COUNTER.., then the reset
\* vector written.  The slice memory[0x8000 .. 0x8000 + len] must lie in the array.
load(c, program) ==
  IF DEFAULT_PROGRAM_COUNTER + Len(program) > MEMORY_LEN
    THEN Panicked(c, RangeOutOfBounds)
    ELSE LET copied ==
               [a \in ((DOMAIN c.memory) \
                         (DEFAULT_PROGRAM_COUNTER ..
                            DEFAULT_PROGRAM_COUNTER + Len(program) - 1))
                      \cup {DEFAULT_PROGRAM_COUNTER + i - 1 :
                              i \in {j \in 1..Len(program) : program[j] # 0}}
                  |-> IF a >= DEFAULT_PROGRAM_COUNTER
                         /\ a < DEFAULT_PROGRAM_COUNTER + Len(program)
                        THEN program[a - DEFAULT_PROGRAM_COUNTER + 1]
                        ELSE c.memory[a]]
         IN mem_write_u16([c EXCEPT !.memory = copied], RESET_VECTOR,
                          DEFAULT_PROGRAM_COUNTER)

\* reset taking DEFAULT_PROGRAM_COUNTER instead of reading the reset vector
reset_to_default(c) ==
  [c EXCEPT !.register_a = 0, !.register_x = 0, !.register_y = 0,
            !.status = 0, !.program_counter = DEFAULT_PROGRAM_COUNTER]

\* reset as a power cycle: memory zero-filled as well
reset_clearing_memory(c) ==
  LET v == mem_read_u16(c, RESET_VECTOR)
      z == [c EXCEPT !.register_a = 0, !.register_x = 0, !.register_y = 0,
                     !.status = 0, !.memory = << >>]
  IN IF v.panic # NoPanic THEN Panicked(z, v.panic)
     ELSE [z EXCEPT !.program_counter = v.value]

\* CPU::reset
reset(c) ==
  LET v == mem_read_u16(c, RESET_VECTOR)
      z == [c EXCEPT !.register_a = 0, !.register_x = 0, !.register_y = 0,
                     !.status = 0]
  IN IF v.panic # NoPanic THEN Panicked(z, v.panic)
     ELSE [z EXCEPT !.program_counter = v.value]

(***************************************************************************)
(* State.  The first six variables are the fields of struct CPU.  The      *)
(* others record where the program stands: the panic that ended a call,    *)
(* the phase (idle | running | halted | panicked), the host calls made so  *)
(* far, the program last loaded, the iterations of the current run, the    *)
(* address and value of the opcode byte last fetched, whether an LDA/STA   *)
(* of the current run resolved a memory operand at or above 0x8000, and    *)
(* the value last returned by a read, and the values that the message of   *)
(* a panic raised by run itself was formatted with.                        *)
(***************************************************************************)
VARIABLES register_a, register_x, register_y, status, program_counter, memory,
          panic, phase, calls, program, steps, fetch_addr, opcode,
          high_access, ret, panic_args

vars == <<register_a, register_x, register_y, status, program_counter, memory,
          panic, phase, calls, program, steps, fetch_addr, opcode,
          high_access, ret, panic_args>>

\* the CPU of the current state, as the record the handlers work on
CPU ==
  [register_a |-> register_a, register_x |-> register_x,
   register_y |-> register_y, status |-> status,
   program_counter |-> program_counter, memory |-> memory, panic |-> panic]

\* the fields of c become the next state's CPU
SetCPU(c) ==
  /\ register_a' = c.register_a
  /\ register_x' = c.register_x
  /\ register_y' = c.register_y
  /\ status' = c.status
  /\ program_counter' = c.program_counter
  /\ memory' = c.memory
  /\ panic' = c.panic

\* the phase after a call that returns normally in phase `normal`
PhaseAfter(c, normal) == IF c.panic # NoPanic THEN "panicked" ELSE normal

\* let mut cpu = CPU::new()
Init ==
  /\ register_a = new.register_a
  /\ register_x = new.register_x
  /\ register_y = new.register_y
  /\ status = new.status
  /\ program_counter = new.program_counter
  /\ memory = new.memory
  /\ panic = new.panic
  /\ phase = "idle"
  /\ calls = << >>
  /\ program = << >>
  /\ steps = 0
  /\ fetch_addr = -1
  /\ opcode = -1
  /\ high_access = FALSE
  /\ ret = -1
  /\ panic_args = << >>

(***************************************************************************)
(* Inputs.                                                                 *)
(***************************************************************************)
\* the programs of tests/test_nes.rs and of the specification's examples
LdaImmProgram(v) == <<\hA9, v, \h00>>
LdaTaxProgram(v) == <<\hA9, v, \hAA, \h00>>
LdaTaxInxProgram(v) == <<\hA9, v, \hAA, \hE8, \h00>>
LdaTaxInxInxProgram(v) == <<\hA9, v, \hAA, \hE8, \hE8, \h00>>
LdaZeroPageProgram == <<\hA5, \h10, \h00>>
LdxInxInxProgram == <<\hA2, \hFF, \hE8, \hE8, \h00>>

\* operand bytes and operand words of the generated instructions
OperandBytes == {\h10, \hFF}
OperandWords == {<<\h10, \h00>>, <<\h03, \h80>>, <<\h05, \h80>>, <<\hFF, \hFF>>}

\* instruction encodings: the handled opcodes with their operands, an opcode
\* of the table that run does not handle (LDX #$FF) and a byte outside the table
Instructions ==
  {<<op>> : op \in HandledOpcodes \cap None1Opcodes}
    \cup {<<op, b>> : op \in {o \in HandledOpcodes : OpcodeLen(o) = 2},
                      b \in OperandBytes}
    \cup {<<op, w[1], w[2]>> : op \in {o \in HandledOpcodes : OpcodeLen(o) = 3},
                               w \in OperandWords}
    \cup {<<\hA2, \hFF>>, <<\h02>>}

RECURSIVE Flatten(_)
\* the bytes of a sequence of instructions
Flatten(is) == IF is = << >> THEN << >> ELSE Head(is) \o Flatten(Tail(is))

\* the sequences of up to n generated instructions
GeneratedBodies(n) == UNION {[1..k -> Instructions] : k \in 0..n}

\* a generated program ends with or without a BRK of its own
Endings == {<< >>, <<BrkOpcode>>}

\* the programs of the tests, for every operand byte
TestPrograms ==
  {LdaImmProgram(v) : v \in Byte} \cup {LdaTaxProgram(v) : v \in Byte}
    \cup {LdaTaxInxProgram(v) : v \in Byte}
    \cup {LdaTaxInxInxProgram(v) : v \in Byte}
    \cup {LdaZeroPageProgram, LdxInxInxProgram}

\* the programs, addresses and bytes of the host calls of Spec
HostPrograms ==
  {LdaZeroPageProgram, LdaImmProgram(\h05), LdaTaxInxProgram(\hC0),
   <<\h8D, \h03, \h80, \hAA, \h00>>, << >>}
HostAddrs == {\h0000, \h0010, \hFFFC, \hFFFD, \hFFFF}
HostBytes == {\h00, \h55, \hA9}

\* the addresses and values of the 16-bit helper calls of SpecMem
WordAddrs == {\h0000, \h00FF, \h8000, \hFFFC, \hFFFD, \hFFFE, \hFFFF}
WordBytes == {\h00, \h01, \h7F, \h80, \hFF}
WordValues == {hi * 256 + lo : hi \in WordBytes, lo \in WordBytes}

(***************************************************************************)
(* Host calls.  A call is made between runs, on a CPU that did not panic.  *)
(***************************************************************************)
Callable == phase \in {"idle", "halted"} /\ Len(calls) < MaxCalls

\* what a call that is not a run leaves of the run record
NoRun == UNCHANGED <<steps, fetch_addr, opcode, high_access, panic_args>>

\* cpu.mem_read(addr)
CallMemRead(addr) ==
  /\ Callable
  /\ LET r == mem_read(CPU, addr)
     IN /\ SetCPU(Panicked(CPU, r.panic))
        /\ phase' = PhaseAfter(r, "idle")
        /\ ret' = IF r.panic = NoPanic THEN r.value ELSE ret
  /\ calls' = Append(calls, <<"mem_read", addr>>)
  /\ UNCHANGED program
  /\ NoRun

\* cpu.mem_write(addr, data)
CallMemWrite(addr, data) ==
  /\ Callable
  /\ LET c == mem_write(CPU, addr, data)
     IN SetCPU(c) /\ phase' = PhaseAfter(c, "idle")
  /\ calls' = Append(calls, <<"mem_write", addr, data>>)
  /\ UNCHANGED <<program, ret>>
  /\ NoRun

\* cpu.load(p)
CallLoad(p) ==
  /\ Callable
  /\ LET c == load(CPU, p)
     IN SetCPU(c) /\ phase' = PhaseAfter(c, "idle")
  /\ calls' = Append(calls, <<"load", p>>)
  /\ program' = p
  /\ UNCHANGED ret
  /\ NoRun

\* cpu.reset()
CallReset ==
  /\ Callable
  /\ LET c == reset(CPU)
     IN SetCPU(c) /\ phase' = PhaseAfter(c, "idle")
  /\ calls' = Append(calls, <<"reset">>)
  /\ UNCHANGED <<program, ret>>
  /\ NoRun

\* what entering run's loop sets of the run record
EnterRun ==
  /\ steps' = 0
  /\ fetch_addr' = -1
  /\ opcode' = -1
  /\ high_access' = FALSE
  /\ panic_args' = << >>

\* cpu.run(): the loop is entered
CallRun ==
  /\ Callable
  /\ SetCPU(CPU)
  /\ phase' = "running"
  /\ calls' = Append(calls, <<"run">>)
  /\ UNCHANGED <<program, ret>>
  /\ EnterRun

\* cpu.load_and_run(p): load(p), reset(), and run's loop is entered
CallLoadAndRun(p) ==
  /\ Callable
  /\ LET l == load(CPU, p)
         c == IF l.panic # NoPanic THEN l ELSE reset(l)
     IN SetCPU(c) /\ phase' = PhaseAfter(c, "running")
  /\ calls' = Append(calls, <<"load_and_run", p>>)
  /\ program' = p
  /\ UNCHANGED ret
  /\ EnterRun

\* whether this iteration's LDA or STA resolves a memory operand (not an
\* immediate one) at or above DEFAULT_PROGRAM_COUNTER
ResolvesHigh(c) ==
  LET f == mem_read(c, c.program_counter)
      c1 == [c EXCEPT !.program_counter = c.program_counter + 1]
      a == get_operand_address(c1, OpcodeMode(f.value))
  IN /\ f.panic = NoPanic
     /\ f.value \in LdaOpcodes \cup StaOpcodes
     /\ OpcodeMode(f.value) # "Immediate"
     /\ a.panic = NoPanic
     /\ a.addr >= DEFAULT_PROGRAM_COUNTER

\* one iteration of the loop of run
RunIteration ==
  /\ phase = "running"
  /\ LET r == run_iteration(CPU)
     IN /\ SetCPU(r.cpu)
        /\ phase' = PhaseAfter(r.cpu, IF r.returned THEN "halted" ELSE "running")
        /\ opcode' = r.code
        /\ panic_args' = r.args
  /\ steps' = steps + 1
  /\ fetch_addr' = program_counter
  /\ high_access' = (high_access \/ ResolvesHigh(CPU))
  /\ UNCHANGED <<calls, program, ret>>

\* self.mem_write_u16(pos, data), called inside the cpu module
CallMemWriteU16(pos, data) ==
  /\ Callable
  /\ LET c == mem_write_u16(CPU, pos, data)
     IN SetCPU(c) /\ phase' = PhaseAfter(c, "idle")
  /\ calls' = Append(calls, <<"mem_write_u16", pos, data>>)
  /\ UNCHANGED <<program, ret>>
  /\ NoRun

\* self.mem_read_u16(pos), called inside the cpu module
CallMemReadU16(pos) ==
  /\ Callable
  /\ LET r == mem_read_u16(CPU, pos)
     IN /\ SetCPU(Panicked(CPU, r.panic))
        /\ phase' = PhaseAfter(r, "idle")
        /\ ret' = IF r.panic = NoPanic THEN r.value ELSE ret
  /\ calls' = Append(calls, <<"mem_read_u16", pos>>)
  /\ UNCHANGED program
  /\ NoRun

(***************************************************************************)
(* Specifications.                                                         *)
(*   Spec         a host making up to MaxCalls calls on one CPU            *)
(*   SpecHarness  a test: a fresh CPU, one load_and_run of a program       *)
(*   SpecMem      a fresh CPU, one mem_write_u16, then one mem_read_u16    *)
(***************************************************************************)
Next ==
  \/ \E addr \in HostAddrs : CallMemRead(addr)
  \/ \E addr \in HostAddrs, data \in HostBytes : CallMemWrite(addr, data)
  \/ \E p \in HostPrograms : CallLoad(p)
  \/ CallReset
  \/ CallRun
  \/ \E p \in HostPrograms : CallLoadAndRun(p)
  \/ RunIteration

Spec == Init /\ [][Next]_vars

NextHarness ==
  \/ calls = << >> /\ \E p \in TestPrograms : CallLoadAndRun(p)
  \/ calls = << >>
       /\ \E b \in GeneratedBodies(MaxInstrs), e \in Endings :
            CallLoadAndRun(Flatten(b) \o e)
  \/ RunIteration

SpecHarness == Init /\ [][NextHarness]_vars

NextMem ==
  \/ calls = << >>
       /\ \E pos \in WordAddrs, data \in WordValues : CallMemWriteU16(pos, data)
  \/ Len(calls) = 1 /\ \E pos \in WordAddrs : CallMemReadU16(pos)

SpecMem == Init /\ [][NextMem]_vars

(***************************************************************************)
(* SpecFlags: update_zero_and_negative_flags applied once, to any status   *)
(* byte and any result byte.                                               *)
(***************************************************************************)
InitFlags ==
  /\ register_a = new.register_a
  /\ register_x = new.register_x
  /\ register_y = new.register_y
  /\ status \in Byte
  /\ program_counter = new.program_counter
  /\ memory = new.memory
  /\ panic = new.panic
  /\ phase = "idle"
  /\ calls = << >>
  /\ program = << >>
  /\ steps = 0
  /\ fetch_addr = -1
  /\ opcode = -1
  /\ high_access = FALSE
  /\ ret = -1
  /\ panic_args = << >>

\* self.update_zero_and_negative_flags(result)
CallUpdateFlags(result) ==
  /\ calls = << >>
  /\ status' = update_zero_and_negative_flags(status, result)
  /\ calls' = << <<"update_zero_and_negative_flags", status, result>> >>
  /\ UNCHANGED <<register_a, register_x, register_y, program_counter, memory,
                 panic, phase, program, ret>>
  /\ NoRun

NextFlags == \E result \in Byte : CallUpdateFlags(result)

SpecFlags == InitFlags /\ [][NextFlags]_vars

(***************************************************************************)
(* SpecAddr: get_operand_address called once, for any addressing mode, on  *)
(* a CPU whose index registers, operand bytes and zero page are drawn from *)
(* samples.  The operand lies at OperandAt; the zero page and the first    *)
(* bytes of page one hold one of two images whose bytes all differ.        *)
(***************************************************************************)
AddressingModes ==
  {"Immediate", "ZeroPage", "ZeroPage_X", "ZeroPage_Y", "Absolute",
   "Absolute_X", "Absolute_Y", "Indirect_X", "Indirect_Y", "NoneAddressing"}

IndexSamples == {\h00, \h01, \hFF}

OperandAt == \h0200

OperandSamples == {\h00, \h01, \h80, \hFE, \hFF}

OperandHighSamples == {\h00, \h01}

ZeroPageImages ==
  { (\h0000 :> \h11 @@ \h0001 :> \h22 @@ \h0080 :> \h77 @@ \h0081 :> \h88
       @@ \h00FE :> \h33 @@ \h00FF :> \h44 @@ \h0100 :> \h55
       @@ \h0101 :> \h66),
    (\h0000 :> \hFF @@ \h0001 :> \hFE @@ \h0080 :> \h02 @@ \h0081 :> \h03
       @@ \h00FE :> \hFD @@ \h00FF :> \hFC @@ \h0100 :> \h01
       @@ \h0101 :> \h04) }

InitAddr ==
  /\ register_a = new.register_a
  /\ register_x \in IndexSamples
  /\ register_y \in IndexSamples
  /\ status = new.status
  /\ program_counter = OperandAt
  /\ \E image \in ZeroPageImages, lo \in OperandSamples,
        hi \in OperandHighSamples :
        memory = MemSet(MemSet(image, OperandAt, lo), OperandAt + 1, hi)
  /\ panic = new.panic
  /\ phase = "idle"
  /\ calls = << >>
  /\ program = << >>
  /\ steps = 0
  /\ fetch_addr = -1
  /\ opcode = -1
  /\ high_access = FALSE
  /\ ret = -1
  /\ panic_args = << >>

\* self.get_operand_address(&mode)
CallGetOperandAddress(mode) ==
  /\ calls = << >>
  /\ LET r == get_operand_address(CPU, mode)
     IN /\ SetCPU(Panicked(CPU, r.panic))
        /\ phase' = PhaseAfter(r, "idle")
        /\ ret' = IF r.panic = NoPanic THEN r.addr ELSE ret
        /\ panic_args' = IF r.panic = ModeNotSupported THEN <<mode>> ELSE << >>
  /\ calls' = << <<"get_operand_address", mode>> >>
  /\ UNCHANGED <<program, steps, fetch_addr, opcode, high_access>>

NextAddr == \E mode \in AddressingModes : CallGetOperandAddress(mode)

SpecAddr == InitAddr /\ [][NextAddr]_vars

(***************************************************************************)
(* SpecLoad: one load, of a program that may reach the reset vector, on a  *)
(* CPU that may have run a program and had bytes written before.           *)
(***************************************************************************)
\* the number of bytes between DEFAULT_PROGRAM_COUNTER and the reset vector
VectorOffset == RESET_VECTOR - DEFAULT_PROGRAM_COUNTER

\* a program of n bytes: BRK bytes, then four INX
TailProgram(n) == [i \in 1..n |-> IF i > n - 4 THEN InxOpcode ELSE BrkOpcode]

LoadPrograms ==
  {<< >>, LdaTaxInxProgram(\hC0), TailProgram(VectorOffset),
   TailProgram(VectorOffset + 1), TailProgram(VectorOffset + 3),
   TailProgram(VectorOffset + 4)}

\* bytes written before the load: outside the area of the program, inside it,
\* and in the reset vector
LoadAddrs == {\h0010, \h8001, \hFFFC}

LoadBytes == {\h55}

NoLoadYet == \A i \in DOMAIN calls : calls[i][1] # "load"

NextLoad ==
  \/ calls = << >> /\ CallLoadAndRun(LdaTaxInxProgram(\hC0))
  \/ RunIteration
  \/ NoLoadYet /\ \E addr \in LoadAddrs, data \in LoadBytes :
                     CallMemWrite(addr, data)
  \/ NoLoadYet /\ \E p \in LoadPrograms : CallLoad(p)

SpecLoad == Init /\ [][NextLoad]_vars

(***************************************************************************)
(* SpecAny: one run entered in any state that writes, a reset and earlier  *)
(* runs can leave: program_counter anywhere, up to the last index of the   *)
(* array and beyond it, any byte where the first fetch takes place, sample *)
(* bytes behind it, zeros elsewhere; or a sled of INX from SledStart to    *)
(* the end of the array.  SpecAnyFair adds that a run that can make an     *)
(* iteration does make it.                                                 *)
(***************************************************************************)
StartPcs == {\h8000, \hFFFD, \hFFFE, \hFFFF}

FollowBytes == {\h00, \hE8, \hFF}

StartRegisters == {\h01, \hFF}

SledStart == \hFF00

\* the bytes b0, b1, b2 placed from address pc on, as far as the array reaches
Window(pc, b0, b1, b2) ==
  LET cells == (pc :> b0) @@ (pc + 1 :> b1) @@ (pc + 2 :> b2)
  IN [a \in {o \in DOMAIN cells : InBounds(o) /\ cells[o] # 0} |-> cells[a]]

InitAny ==
  /\ register_a \in StartRegisters
  /\ register_x \in StartRegisters
  /\ register_y = new.register_y
  /\ status = new.status
  /\ \/ /\ program_counter \in StartPcs
        /\ \E b0 \in Byte, b1 \in FollowBytes, b2 \in FollowBytes :
              memory = Window(program_counter, b0, b1, b2)
     \/ /\ program_counter = SledStart
        /\ memory = [a \in SledStart .. MEMORY_LEN - 1 |-> InxOpcode]
  /\ panic = new.panic
  /\ phase = "idle"
  /\ calls = << >>
  /\ program = << >>
  /\ steps = 0
  /\ fetch_addr = -1
  /\ opcode = -1
  /\ high_access = FALSE
  /\ ret = -1
  /\ panic_args = << >>

NextAny ==
  \/ calls = << >> /\ CallRun
  \/ RunIteration

SpecAny == InitAny /\ [][NextAny]_vars

SpecAnyFair == SpecAny /\ WF_vars(RunIteration)

(***************************************************************************)
(* Properties.                                                             *)
(***************************************************************************)
\* the zero flag (status bit 1) and the negative flag (status bit 7)
ZeroFlag == Bit(status, 1) = 1
NegativeFlag == Bit(status, 7) = 1
\* the flags are those of the byte v
FlagsOf(v) == (ZeroFlag <=> v = 0) /\ (NegativeFlag <=> Bit(v, 7) = 1)

\* the one call of a test: load_and_run(p) on the fresh CPU
RanFresh(p) == calls = << <<"load_and_run", p>> >>

\* the last host call
LastCall == calls[Len(calls)]

\* C1: for every byte v (the program's second byte), load_and_run([0xA9, v, 0x00]) on a fresh CPU never
\* panics, returns after its second iteration, and returns with register_a = v,
\* the zero flag set exactly when v = 0 and the negative flag set exactly when
\* bit 7 of v is set.
C1_LdaImmediate ==
  LET v == program[2]
  IN (Len(program) = 3 /\ v \in Byte /\ RanFresh(LdaImmProgram(v))) =>
       /\ phase # "panicked"
       /\ phase = "running" <=> steps < 2
       /\ phase = "halted" => register_a = v /\ FlagsOf(v)

\* C1 happens: LDA #$80; BRK has returned with the negative flag set
C1_Witness ==
  /\ RanFresh(LdaImmProgram(\h80))
  /\ phase = "halted"
  /\ register_a = \h80
  /\ NegativeFlag /\ ~ZeroFlag

\* C2 (as claimed): after mem_write(0x10, 0x55); load([0xA5, 0x10, 0x00]); run()
\* on a fresh CPU, with no reset in between, run returns with register_a = 0x55.
C2_RunAfterLoadExecutesProgram ==
  (/\ calls = << <<"mem_write", \h10, \h55>>, <<"load", LdaZeroPageProgram>>,
                 <<"run">> >>
   /\ phase # "running")
    => phase = "halted" /\ register_a = \h55

\* C3: after reset() returns, program_counter is the little-endian word at
\* 0xFFFC/0xFFFD and register_a, register_x, register_y and status are 0; after
\* load(p) followed by reset(), program_counter is 0x8000.
C3_ResetFromVector ==
  (calls # << >> /\ LastCall = <<"reset">> /\ phase = "idle") =>
    /\ program_counter
         = MemGet(memory, RESET_VECTOR) + 256 * MemGet(memory, RESET_VECTOR + 1)
    /\ register_a = 0 /\ register_x = 0 /\ register_y = 0 /\ status = 0
    /\ (Len(calls) >= 2 /\ calls[Len(calls) - 1][1] = "load")
         => program_counter = DEFAULT_PROGRAM_COUNTER

\* C3 happens: a reset has read a vector that the host wrote byte by byte
C3_Witness ==
  /\ Len(calls) = 3
  /\ LastCall = <<"reset">>
  /\ phase = "idle"
  /\ MemGet(memory, RESET_VECTOR) = \h55
  /\ MemGet(memory, RESET_VECTOR + 1) = \hA9
  /\ program_counter = \hA955

\* the opcodes of the instructions that do not end run: LDA, STA, TAX, INX
NonHaltOpcodes == LdaOpcodes \cup StaOpcodes \cup {TaxOpcode, InxOpcode}

RECURSIVE SupportedFrom(_, _)
\* from index i on, p is LDA/STA/TAX/INX instructions, each with its operand
\* bytes, followed by one BRK that is p's last byte
SupportedFrom(p, i) ==
  IF i > Len(p) THEN FALSE
  ELSE IF p[i] = BrkOpcode THEN i = Len(p)
  ELSE p[i] \in NonHaltOpcodes /\ SupportedFrom(p, i + OpcodeLen(p[i]))

\* p is a program made only of supported instructions, ended by its BRK
SupportedProgram(p) == SupportedFrom(p, 1)

RECURSIVE CountFrom(_, _)
\* the instructions of p from index i on, by their declared lengths
CountFrom(p, i) ==
  IF i > Len(p) THEN 0 ELSE 1 + CountFrom(p, i + OpcodeLen(p[i]))

\* the number of instructions of the program p
InstrCount(p) == CountFrom(p, 1)

C5_PcAdvancesByLength ==
  (phase = "running" /\ steps > 0 /\ opcode \in NonHaltOpcodes) =>
    /\ program_counter = fetch_addr + OpcodeLen(opcode)
    /\ opcode \in {TaxOpcode, InxOpcode} => program_counter = fetch_addr + 1
    /\ opcode \in LdaOpcodes \cup StaOpcodes
         => program_counter \in {fetch_addr + 2, fetch_addr + 3}

\* C5 happens: a three-byte STA has executed
C5_Witness ==
  /\ phase = "running"
  /\ opcode = \h8D
  /\ fetch_addr = DEFAULT_PROGRAM_COUNTER + 2
  /\ program_counter = DEFAULT_PROGRAM_COUNTER + 5

\* C6 (as claimed): mem_read and mem_write succeed, without a bounds error,
\* for every 16-bit address, 0xFFFF included.
C6_NoBoundsError ==
  (calls # << >> /\ LastCall[1] \in {"mem_read", "mem_write"})
    => panic # IndexOutOfBounds

\* C7 (as claimed): for every address pos that has a next address, and every
\* word v, mem_write_u16(pos, v) stores v mod 256 at pos and v div 256 at
\* pos + 1 without an error, and mem_read_u16(pos) then returns v.
C7_WordRoundTrip ==
  (/\ Len(calls) >= 1
   /\ calls[1][1] = "mem_write_u16"
   /\ calls[1][2] + 1 \in U16
   /\ Len(calls) = 2 => calls[2] = <<"mem_read_u16", calls[1][2]>>)
    => /\ panic = NoPanic
       /\ MemGet(memory, calls[1][2]) = calls[1][3] % 256
       /\ MemGet(memory, calls[1][2] + 1) = calls[1][3] \div 256
       /\ Len(calls) = 2 => ret = calls[1][3]

\* C8: for every byte v, load_and_run of LDA #v; TAX; BRK returns with
\* register_x = v, register_a = v and the flags of register_x; with one INX
\* before the BRK it returns with register_x = (v + 1) mod 256.  Neither panics.
C8_TaxCopiesAToX ==
  LET v == program[2]
  IN /\ (Len(program) = 4 /\ v \in Byte /\ RanFresh(LdaTaxProgram(v))) =>
          /\ phase # "panicked"
          /\ phase = "running" <=> steps < 3
          /\ phase = "halted"
               => register_x = v /\ register_a = v /\ FlagsOf(register_x)
     /\ (Len(program) = 5 /\ v \in Byte /\ RanFresh(LdaTaxInxProgram(v))) =>
          /\ phase # "panicked"
          /\ phase = "running" <=> steps < 4
          /\ steps = 2 => register_x = v /\ register_a = v /\ FlagsOf(v)
          /\ phase = "halted" => register_x = (v + 1) % 256

\* C8 happens: LDA #$C0; TAX; INX; BRK has returned with register_x = 0xC1
C8_Witness ==
  /\ RanFresh(LdaTaxInxProgram(\hC0))
  /\ phase = "halted"
  /\ register_x = \hC1

\* C9: in LDA #v; TAX; INX; INX; BRK every INX leaves register_x one more
\* modulo 256, never panics, and leaves the flags of the new register_x; with
\* v = 0xFF the first INX gives 0x00 with the zero flag set, the second 0x01
\* with the zero flag clear, and the run returns with register_x = 0x01.
C9_InxWraps ==
  LET v == program[2]
  IN (Len(program) = 6 /\ v \in Byte /\ RanFresh(LdaTaxInxInxProgram(v))) =>
       /\ phase # "panicked"
       /\ phase = "running" <=> steps < 5
       /\ steps = 3 => register_x = (v + 1) % 256 /\ FlagsOf(register_x)
       /\ steps >= 4 => register_x = (v + 2) % 256 /\ FlagsOf(register_x)
       /\ (v = \hFF /\ steps = 3) => register_x = 0 /\ ZeroFlag
       /\ (v = \hFF /\ steps >= 4) => register_x = 1 /\ ~ZeroFlag

\* C9 happens: the first INX of the run from 0xFF has wrapped to 0
C9_Witness ==
  /\ RanFresh(LdaTaxInxInxProgram(\hFF))
  /\ steps = 3
  /\ opcode = InxOpcode
  /\ register_x = 0
  /\ ZeroFlag

\* C10 (as claimed): load_and_run([0xA2, 0xFF, 0xE8, 0xE8, 0x00]) reaches the
\* halt opcode without a fatal error and returns with register_x = 1.
C10_LdxInxInx ==
  (RanFresh(LdxInxInxProgram) /\ phase # "running")
    => phase = "halted" /\ register_x = 1

\* C11 (as claimed): when run fetches a byte that the opcode table does not
\* hold, the run ends in a panic whose message carries the opcode byte and the
\* program counter of the fetch, and the loop is not entered again.
C11_UnrecognizedCarriesOpcodeAndPc ==
  (steps > 0 /\ opcode \notin TableOpcodes) =>
    /\ phase = "panicked"
    /\ panic = OpcodeNotRecognized
    /\ ~ENABLED RunIteration
    /\ panic_args = <<opcode, fetch_addr>>

\* C12: after update_zero_and_negative_flags(result) on any status byte,
\* status bit 1 is set exactly when result is 0, status bit 7 is set exactly
\* when bit 7 of result is set, and bits 0, 2, 3, 4, 5 and 6 are as they were
\* before the call.
C12_FlagsMaskAndOr ==
  (calls # << >> /\ calls[1][1] = "update_zero_and_negative_flags") =>
    LET before == calls[1][2]
        result == calls[1][3]
    IN /\ Bit(status, 1) = 1 <=> result = 0
       /\ Bit(status, 7) = 1 <=> Bit(result, 7) = 1
       /\ \A n \in {0, 2, 3, 4, 5, 6} : Bit(status, n) = Bit(before, n)
       /\ status \in Byte

\* C12 happens: a call on a status byte with both flags and other bits set,
\* for a positive result, cleared the two flags and kept the other six bits
C12_Witness ==
  /\ calls = << <<"update_zero_and_negative_flags", \hFF, \h01>> >>
  /\ status = \h7D

\* the operand byte of the instruction being resolved, and the 16-bit word
\* whose low byte is at zero-page address p and whose high byte is at
\* zero-page address (p + 1) mod 256
OperandByte == MemGet(memory, program_counter)
ZeroPageWord(p) == MemGet(memory, (p + 1) % 256) * 256 + MemGet(memory, p)

\* C13: the ZeroPage,X / ZeroPage,Y address is (memory[pc] + register) mod 256,
\* within 0x00..0xFF; Indirect,X takes its address, and Indirect,Y its base,
\* from the bytes at zero-page addresses p and (p + 1) mod 256, with
\* p = (memory[pc] + register_x) mod 256 for Indirect,X and p = memory[pc] for
\* Indirect,Y: the byte at 0x0100 is never part of it.
C13_ZeroPageSumsWrap ==
  (calls # << >> /\ calls[1][1] = "get_operand_address") =>
    LET mode == calls[1][2]
    IN /\ mode = "ZeroPage_X" =>
            /\ panic = NoPanic
            /\ ret = (OperandByte + register_x) % 256
            /\ ret \in 0 .. \hFF
       /\ mode = "ZeroPage_Y" =>
            /\ panic = NoPanic
            /\ ret = (OperandByte + register_y) % 256
            /\ ret \in 0 .. \hFF
       /\ mode = "Indirect_X" =>
            /\ panic = NoPanic
            /\ ret = ZeroPageWord((OperandByte + register_x) % 256)
       /\ mode = "Indirect_Y" =>
            /\ panic = NoPanic
            /\ ret = (ZeroPageWord(OperandByte) + register_y) % 65536

\* C13 happens: Indirect,X with operand 0xFE and register_x = 1 took its
\* pointer from 0x00FF and 0x0000, not from 0x0100
C13_Witness ==
  /\ calls = << <<"get_operand_address", "Indirect_X">> >>
  /\ OperandByte = \hFE
  /\ register_x = \h01
  /\ MemGet(memory, \h0000) = \h11
  /\ MemGet(memory, \h0100) = \h55
  /\ ret = \h1144

\* the operand address that the instruction fetched at program_counter
\* resolves, its opcode being code
ResolvedOperand(code) ==
  get_operand_address([CPU EXCEPT !.program_counter = program_counter + 1],
                      OpcodeMode(code))

\* the bytes of memory at the addresses other than addr are left as they are
MemorySameExceptAt(addr) ==
  \A o \in (DOMAIN memory \cup DOMAIN memory') \ {addr} :
    MemGet(memory', o) = MemGet(memory, o)

LoadReturned ==
  /\ Len(calls') = Len(calls) + 1
  /\ calls'[Len(calls')] = <<"load", program'>>
  /\ panic' = NoPanic

\* what C15 says of a call of load
LoadEffect ==
  LET first == DEFAULT_PROGRAM_COUNTER
      last == DEFAULT_PROGRAM_COUNTER + Len(program') - 1
  IN /\ \A o \in (DOMAIN memory \cup DOMAIN memory')
                   \ ((first .. last) \cup {RESET_VECTOR, RESET_VECTOR + 1}) :
            MemGet(memory', o) = MemGet(memory, o)
     /\ UNCHANGED <<register_a, register_x, register_y, status,
                     program_counter>>
     /\ \A i \in 1 .. Len(program') :
            MemGet(memory', DEFAULT_PROGRAM_COUNTER + i - 1) = program'[i]
     /\ MemGet(memory', RESET_VECTOR) = DEFAULT_PROGRAM_COUNTER % 256
     /\ MemGet(memory', RESET_VECTOR + 1) = DEFAULT_PROGRAM_COUNTER \div 256

\* C15 (as claimed): every call of load that returns changes memory only in
\* 0x8000 .. 0x8000 + length - 1 and at 0xFFFC / 0xFFFD, leaves the registers,
\* status and program_counter as they were, and leaves every byte of the
\* program at 0x8000 + i and 0x8000 in the reset vector.
C15_LoadFrameAnyProgram == [][LoadReturned => LoadEffect]_vars

\* C15 (amended): the same, for the programs of at most 0x7FFC bytes, which
\* end below the reset vector; for them load returns.
C15_LoadFrame ==
  [][(Len(calls') = Len(calls) + 1
        /\ calls'[Len(calls')] = <<"load", program'>>
        /\ Len(program') <= VectorOffset)
       => LoadReturned /\ LoadEffect]_vars

\* C15 happens: after a run that left register_x = 0xC1 and program_counter
\* = 0x8005, a program of 0x7FFC bytes was loaded up to 0xFFFB, below the
\* reset vector
C15_Witness ==
  /\ Len(calls) = 2
  /\ calls[2] = <<"load", TailProgram(VectorOffset)>>
  /\ phase = "idle"
  /\ register_x = \hC1
  /\ program_counter = \h8005
  /\ MemGet(memory, \hFFFB) = InxOpcode
  /\ MemGet(memory, RESET_VECTOR) = \h00
  /\ MemGet(memory, RESET_VECTOR + 1) = \h80

\* the 16-bit word that the reset vector holds
VectorWord == MemGet(memory, RESET_VECTOR + 1) * 256 + MemGet(memory, RESET_VECTOR)

\* C16: a call of reset, after a load or after a run that halted, returns with
\* every memory byte as it was and program_counter at the address held in
\* the reset vector; the first iteration of a run called next, with no load
\* in between, fetches its opcode at that address.
C16_ResetKeepsMemory ==
  [][/\ (Len(calls') = Len(calls) + 1 /\ calls'[Len(calls')] = <<"reset">>) =>
          /\ memory' = memory
          /\ panic' = NoPanic
          /\ program_counter' = VectorWord
     /\ (Len(calls) >= 2 /\ calls[Len(calls)] = <<"run">>
           /\ calls[Len(calls) - 1] = <<"reset">> /\ steps = 0 /\ steps' = 1) =>
          fetch_addr' = VectorWord]_vars

\* C16 happens: load_and_run of LDA #5; BRK, then reset and run: the second
\* run has fetched the LDA at 0x8000 again and loaded 5
C16_Witness ==
  /\ calls = << <<"load_and_run", LdaImmProgram(5)>>, <<"reset">>, <<"run">> >>
  /\ steps = 1
  /\ fetch_addr = DEFAULT_PROGRAM_COUNTER
  /\ opcode = \hA9
  /\ register_a = 5

\* C17: an iteration of run that decodes the halt opcode 0x00 makes run return
\* with register_a, register_x, register_y, status and memory as they were
\* before it and program_counter one past the address of the halt opcode;
\* run returns in no other way.
C17_HaltLeavesState ==
  [][/\ (phase = "running" /\ steps' = steps + 1 /\ InBounds(program_counter)
           /\ MemGet(memory, program_counter) = BrkOpcode) =>
          /\ phase' = "halted"
          /\ panic' = NoPanic
          /\ UNCHANGED <<register_a, register_x, register_y, status, memory>>
          /\ program_counter' = program_counter + 1
     /\ (phase = "running" /\ phase' = "halted") =>
          /\ opcode' = BrkOpcode
          /\ MemGet(memory, program_counter) = BrkOpcode]_vars

\* C17 happens: LDA #$C0; TAX; INX; BRK has halted at the BRK fetched at
\* 0x8004 with the registers and flags that INX left
C17_Witness ==
  /\ RanFresh(LdaTaxInxProgram(\hC0))
  /\ phase = "halted"
  /\ opcode = BrkOpcode
  /\ fetch_addr = \h8004
  /\ program_counter = \h8005
  /\ register_a = \hC0
  /\ register_x = \hC1
  /\ status = \h80

\* C18: when the opcode byte last fetched is in the opcode table and is none
\* of the LDA, STA, TAX, INX and BRK encodings, run has stopped in the
\* not-yet-implemented panic with the registers, status and memory untouched
\* by that iteration, and its loop cannot be entered again.
C18_UnhandledOpcodeIsFatal ==
  [][(phase = "running" /\ steps' = steps + 1 /\ InBounds(program_counter)
        /\ MemGet(memory, program_counter) \in TableOpcodes \ HandledOpcodes) =>
       /\ opcode' = MemGet(memory, program_counter)
       /\ phase' = "panicked"
       /\ panic' = NotYetImplemented
       /\ ~(ENABLED RunIteration)'
       /\ UNCHANGED <<register_a, register_x, register_y, status, memory>>]_vars

\* C18 happens: NOP (0xEA, in the table, without a match arm) was fetched at
\* 0x8000 and stopped the run before the INX behind it
C18_Witness ==
  /\ calls = << <<"run">> >>
  /\ steps = 1
  /\ fetch_addr = \h8000
  /\ opcode = \hEA
  /\ MemGet(memory, \h8001) = InxOpcode
  /\ phase = "panicked"
  /\ panic = NotYetImplemented
  /\ register_x = \hFF

\* C19: in a run entered in any state, every iteration that does not end the
\* run leaves program_counter strictly greater, no iteration leaves it smaller
\* or beyond 0xFFFF, the iterations made never outnumber the addresses up to
\* program_counter, so that they are at most 65536; and a run that is under
\* way stops, by returning or by a panic.
C19_RunStops ==
  /\ [][(phase = "running" /\ steps' = steps + 1) =>
          /\ program_counter' >= program_counter
          /\ phase' = "running" => program_counter' > program_counter
          /\ program_counter' <= \hFFFF
          /\ steps' <= program_counter' + 1
          /\ steps' <= 65536]_vars
  /\ (phase = "running") ~> (phase \in {"halted", "panicked"})

\* C19 happens: a run over INX bytes from 0xFF00 to the last index of the
\* array made 255 iterations, one per byte, and stopped at its 256th fetch,
\* at 0xFFFF, in the index panic
C19_Witness ==
  /\ calls = << <<"run">> >>
  /\ steps = 256
  /\ fetch_addr = \hFFFF
  /\ program_counter = \hFFFF
  /\ phase = "panicked"
  /\ panic = IndexOutOfBounds
  /\ MemGet(memory, \hFFFE) = InxOpcode

\* C20: in every state from the reset of load_and_run on, through the run,
\* status is 0x00, 0x02 or 0x80 (the zero flag and the negative flag are never
\* set together, and no other status bit is set) and register_y is 0.
C20_StatusAndYRange ==
  calls # << >> =>
    /\ status \in {\h00, \h02, \h80}
    /\ ~(ZeroFlag /\ NegativeFlag)
    /\ \A n \in {0, 2, 3, 4, 5, 6} : Bit(status, n) = 0
    /\ register_y = 0

\* C20 happens: in LDA $10; LDA #$FF; ... the first LDA loaded 0 and set the
\* zero flag, and the second has replaced it by the negative flag
C20_Witness ==
  /\ Len(program) >= 4
  /\ SubSeq(program, 1, 4) = <<\hA5, \h10, \hA9, \hFF>>
  /\ RanFresh(program)
  /\ steps = 2
  /\ register_a = \hFF
  /\ status = \h80
  /\ register_y = 0

====
